---- MODULE Spec2Model ----
(***************************************************************************)
(* Model of ebs-autoscale: the Volume lifecycle manager                    *)
(* (src/ebs_autoscale/volume.go), the monitor driver                       *)
(* (src/ebs_autoscale/monitor.go) and the EC2 provider / local device      *)
(* namespace they act on.                                                  *)
(*                                                                         *)
(* One action per step of createAndAttachEbsVolume / removeVolume (each    *)
(* remote call with the handling of its result), plus the entry points     *)
(* NewVolume, CreateVolume, GrowVolume, MonitorVolume.Run.                 *)
(* pc = "idle" and pc = "done" are the states between operations.          *)
(***************************************************************************)
EXTENDS Integers, Sequences, FiniteSets, TLC

\* ------------------------------------------------------------------ bounds
\* sizes (GB) the configuration draws InitialSizeGb / MaxLogicalSizeGb from
MaxGb == 3
\* values the configuration draws EbsMaxCreatedVolumes from
MaxSlots == 3
\* values the configuration draws EbsMaxAttachedVolumes from
MaxAttach == 2
\* volumes the provider will ever create for this host (create-volume fails
\* beyond it, as a provider quota would)
MaxVolumes == 2
\* volumes the provider holds for this host before the first construction
MaxForeign == 3
\* tags on the host
MaxHostTags == 3
\* candidate devices whose probe result varies freely
MaxProbe == 2
\* records in a set of managed volumes whose size is summed on its own
MaxRecords == 3
\* used sizes 0..MaxUsed that Stat reports besides half and all of the total
MaxUsed == 12
\* largest max-batch-size, longest written payload, most buffered events
MaxBatch == 3
MaxBytes == 4
MaxEvents == 5

\* ------------------------------------------------------- program constants
\* candidate device paths /dev/xvdba .. /dev/xvdbz
NumDevices == 26
\* monitor.threshold-pc
PercentageFull == 50

MaxInt32 == 2147483647
MinInt32 == -MaxInt32 - 1

\* the ebs-autoscale-id of this mount point (Volume.Id)
Id == "md5(mountpoint)"
\* the value of a volume's ebs-autoscale-id tag: this mount point's id, the id
\* of another mount point, or "none" for a volume without that tag key
OtherId == "md5(other mountpoint)"
TagValues == {Id, OtherId, "none"}

VARIABLES
    cfg,             \* InitialSizeGb, MaxLogicalSizeGb, MaxAttachedVolumes, MaxCreatedVolumes
    cloud,           \* provider: sequence of volumes, the index is the volume id
    devNodes,        \* indices i such that the node /dev/xvdb<i> exists locally
    constructed,     \* NewVolume returned a Volume
    ManagedVolumes,  \* Volume.ManagedVolumes of the instance the caller holds
    copyMV,          \* ManagedVolumes of assessAndGrow's receiver copy (monitor tick)
    inRun,           \* MonitorVolume.Run is executing
    pc,              \* position of the single flow
    op,              \* operation in progress / just returned
    sizeGb,          \* argument of createAndAttachEbsVolume
    device,          \* allocated device index (0 = none)
    volId,           \* id returned by create-volume in this attempt (0 = none)
    err,             \* error being returned: ordered list of causes, <<>> = nil
    errList,         \* removeVolume's errList
    calls,           \* remote and filesystem calls issued by the operation, in order
    preMV,           \* ManagedVolumes of the receiver when the operation started
    cancelled,       \* ctx.Done() is closed
    okCreate,        \* volume ids of the CreateVolume calls that returned nil on this instance
    okGrow,          \* volume ids of the GrowVolume calls that returned nil on this instance
    okTick,          \* volume ids of the GrowVolume calls that returned nil within this Run
    startEmpty,      \* NewVolume discovered no managed volume
    quota,           \* volumes the provider lets this host create
    expired,         \* the 50s of the running local device-readiness poll have passed
    eval,            \* a function applied on its own: [fn, arg, res, done]
    cw               \* the CwLogWriter and its processLogs goroutine

vars == <<cfg, cloud, devNodes, constructed, ManagedVolumes, copyMV, inRun, pc, op,
          sizeGb, device, volId, err, errList, calls, preMV, cancelled,
          okCreate, okGrow, okTick, startEmpty, quota, expired, eval, cw>>

\* --------------------------------------------------------------- helpers
\* int32 addition and subtraction wrap around (computed without leaving the
\* 32-bit range)
Add32(a, b) ==
    IF a > 0 /\ b > MaxInt32 - a THEN (a - MaxInt32 - 1) + (b - MaxInt32 - 1)
    ELSE IF a < 0 /\ b < MinInt32 - a THEN (a + MaxInt32 + 1) + (b + MaxInt32 + 1)
    ELSE a + b
Sub32(a, b) == IF b = MinInt32 THEN Add32(Add32(a, MaxInt32), 1) ELSE Add32(a, -b)

managedVolumeSizeGbMutant(mv) == IF mv = <<>> THEN 0 ELSE mv[Len(mv)].size

RECURSIVE SumSizes(_)
SumSizes(s) == IF s = <<>> THEN 0
               ELSE Add32(SumSizes(SubSeq(s, 1, Len(s) - 1)), s[Len(s)].size)

\* func (v Volume) managedVolumeSizeGb() int32
managedVolumeSizeGb(mv) == SumSizes(mv)

\* math.Floor(float64(a) / float64(b)) for b # 0
FloorDiv(a, b) == IF b > 0 THEN a \div b ELSE (-a) \div (-b)

calculateSizeIncreasePerVolumeAllSlots(c) ==
    LET difference == Sub32(c.MaxLogicalSizeGb, c.InitialSizeGb)
        divisor    == c.MaxCreatedVolumes
    IN  IF difference <= 0
        THEN {[val |-> 0, err |-> TRUE]}
        ELSE {[val |-> FloorDiv(difference, divisor), err |-> FALSE]}

calculateSizeIncreasePerVolumeMutant(c) ==
    LET difference == c.MaxLogicalSizeGb
        divisor    == Sub32(c.MaxCreatedVolumes, 1)
    IN  IF difference <= 0
        THEN {[val |-> 0, err |-> TRUE]}
        ELSE IF divisor = 0
             THEN {[val |-> MinInt32, err |-> FALSE], [val |-> MaxInt32, err |-> FALSE]}
             ELSE {[val |-> FloorDiv(difference, divisor), err |-> FALSE]}

\* func (v *Volume) calculateSizeIncreasePerVolume() (int32, error):
\* the set of results the build can produce.  With MaxCreatedVolumes = 1 the
\* quotient is +Inf and int32(+Inf) is implementation-dependent (MinInt32 on
\* amd64, MaxInt32 on arm64).
calculateSizeIncreasePerVolume(c) ==
    LET difference == Sub32(c.MaxLogicalSizeGb, c.InitialSizeGb)
        divisor    == Sub32(c.MaxCreatedVolumes, 1)
    IN  IF difference <= 0
        THEN {[val |-> 0, err |-> TRUE]}
        ELSE IF divisor = 0
             THEN {[val |-> MinInt32, err |-> FALSE], [val |-> MaxInt32, err |-> FALSE]}
             ELSE {[val |-> FloorDiv(difference, divisor), err |-> FALSE]}

\* createAndAttachEbsVolume, first pre-check: MaxLogicalSizeGb exceeded
SizeExceeded(volSize, max) == volSize > max

\* createAndAttachEbsVolume, second pre-check: MaxCreatedVolumes reached
CountReached(len, max) == len = max

\* instanceHasCapacity: false when the observed count is over MaxAttachedVolumes
HasCapacity(count, max) == ~(count > max)

\* volumes the provider reports for the filter attachment.instance-id = host
AttachedIds == {i \in DOMAIN cloud : cloud[i].st = "in-use"}

\* getNextLogicalDevice: first candidate, ascending, with no local node; 0 = none
FreeDevices == {i \in 1..NumDevices : i \notin devNodes}
getNextLogicalDevice == IF FreeDevices = {} THEN 0
                        ELSE CHOOSE i \in FreeDevices : \A j \in FreeDevices : i <= j

\* errors.Join: the non-nil errors, in argument order
Join(e1, e2) == e1 \o e2

ReturnAfterRollbackMutant(e, e2) == IF e2 # <<>> THEN e2 ELSE e
\* createAndAttachEbsVolume after removeVolume:
\*   if err2 != nil { return nil, errors.Join(err, err2) }; return nil, err
ReturnAfterRollback(e, e2) == IF e2 # <<>> THEN Join(e, e2) ELSE e

CollectMutant(list, ok, e) == list
\* removeVolume: if err != nil { errList = append(errList, err) }
Collect(list, ok, e) == IF ok THEN list ELSE Append(list, e)

RecordsAfterAttachMutant(mv, ok, rec) == Append(mv, rec)
\* createAndAttachEbsVolume: the attach error returns before
\* v.ManagedVolumes = append(v.ManagedVolumes, ...)
RecordsAfterAttach(mv, ok, rec) == IF ok THEN Append(mv, rec) ELSE mv

createVolumeOutputToVolumeMutant(i, o) == [id |-> i, size |-> o.size, tag |-> "none"]
\* createVolumeOutputToVolume: the record kept for a created volume
createVolumeOutputToVolume(i, o) == [id |-> i, size |-> o.size, tag |-> o.tag]

RECURSIVE DiscoverMutant(_)
DiscoverMutant(n) ==
    IF n = 0 THEN <<>>
    ELSE LET rest == DiscoverMutant(n - 1)
         IN  IF cloud[n].st = "in-use" /\ cloud[n].tag # "none"
             THEN Append(rest, createVolumeOutputToVolume(n, cloud[n]))
             ELSE rest

\* NewVolume's filter: attached volumes tagged ebs-autoscale-id = Id, provider order
RECURSIVE Discover(_)
Discover(n) ==
    IF n = 0 THEN <<>>
    ELSE LET rest == Discover(n - 1)
         IN  IF cloud[n].st = "in-use" /\ cloud[n].tag = Id
             THEN Append(rest, createVolumeOutputToVolume(n, cloud[n]))
             ELSE rest

\* func (v Volume) TotalUsagePercent(): (used / total) * 100, 0 when total = 0
TotalUsagePercent(total, used) == IF total = 0 THEN 0 ELSE (used * 100) \div total

\* float32 numbers: m * 2^e with 2^23 <= m < 2^24, or zero; every operation
\* rounds its exact result to the nearest such number, ties to the even m
Zero32 == [m |-> 0, e |-> 0]
RoundEven(n, rem, unit) ==
    IF 2 * rem > unit \/ (2 * rem = unit /\ n % 2 = 1) THEN n + 1 ELSE n
Norm32(m, e) == IF m = 2^24 THEN [m |-> 2^23, e |-> e + 1] ELSE [m |-> m, e |-> e]

\* float32(a) / float32(b) for integers 0 <= a, 0 < b below 2^24, by long
\* division: n holds the quotient bits produced so far, r the remainder
RECURSIVE DivBits(_, _, _, _)
DivBits(n, r, b, e) ==
    IF n >= 2^23 THEN Norm32(RoundEven(n, r, b), e)
    ELSE DivBits(2 * n + (IF 2 * r >= b THEN 1 ELSE 0), (2 * r) % b, b, e - 1)
Div32(a, b) == IF a = 0 THEN Zero32 ELSE DivBits(a \div b, a % b, b, 0)

\* f * k for an integer 1 <= k < 128
RECURSIVE Shift32(_, _)
Shift32(p, s) == IF p \div 2^s < 2^24 THEN s ELSE Shift32(p, s + 1)
Mul32(f, k) ==
    IF f.m = 0 THEN Zero32
    ELSE LET p == f.m * k
             s == Shift32(p, 0)
         IN  Norm32(RoundEven(p \div 2^s, p % 2^s, 2^s), f.e + s)

TotalUsagePercentOfMutant(stat) ==
    IF stat.total = 0 THEN [usagePercent |-> Zero32, err |-> IF stat.err THEN "Stat" ELSE "nil"]
    ELSE [usagePercent |-> Mul32(Div32(stat.used, stat.total), 100),
          err |-> IF stat.err THEN "Stat" ELSE "nil"]

\* func (v Volume) TotalUsagePercent() (float32, error), of what v.Fs.Stat()
\* returns
TotalUsagePercentOf(stat) ==
    IF stat.err THEN [usagePercent |-> Zero32, err |-> "Stat"]
    ELSE IF stat.total = 0 THEN [usagePercent |-> Zero32, err |-> "nil"]
    ELSE [usagePercent |-> Mul32(Div32(stat.used, stat.total), 100), err |-> "nil"]

\* the receiver the running operation mutates: the monitor works on a copy
CurMV == IF inRun THEN copyMV ELSE ManagedVolumes

Call(name, vol, arg, ok) == [call |-> name, vol |-> vol, arg |-> arg, ok |-> ok]
Count(name, vol) == Cardinality({i \in DOMAIN calls : calls[i].call = name /\ calls[i].vol = vol})
RemoteCalls == {"DescribeVolumes", "CreateVolume", "WaitAvailable", "AttachVolume",
                "ModifyInstanceAttribute", "DetachVolume", "RollbackWait", "DeleteVolume"}
NoRemoteCall == \A i \in DOMAIN calls : calls[i].call \notin RemoteCalls

\* a remote call made with a cancelled context fails
Outcomes == IF cancelled THEN {FALSE} ELSE BOOLEAN

Configs == [InitialSizeGb : 1..MaxGb, MaxLogicalSizeGb : 1..MaxGb,
            MaxAttachedVolumes : 1..MaxAttach, MaxCreatedVolumes : 1..MaxSlots]

\* strings.HasPrefix
HasPrefix(str, prefix) == Len(str) >= Len(prefix) /\ SubSeq(str, 1, Len(prefix)) = prefix

\* time.Time.String(): the rendering of an instant
TimeString(t) == "String(" \o t \o ")"

RECURSIVE buildVolumeTagsMutant(_, _, _)
buildVolumeTagsMutant(host, id, now) ==
    IF host.Tags = <<>>
    THEN << [Key |-> "source-instance", Value |-> host.InstanceId],
            [Key |-> "source-instance-arn", Value |-> host.InstanceArn],
            [Key |-> "ebs-autoscale-id", Value |-> id],
            [Key |-> "ebs-autoscale-creation-time", Value |-> TimeString(now)] >>
    ELSE LET n    == Len(host.Tags)
             t    == host.Tags[n]
             rest == buildVolumeTagsMutant([host EXCEPT !.Tags = SubSeq(host.Tags, 1, n - 1)],
                                           id, now)
         IN  IF ~HasPrefix(t.Key, "aws") THEN Append(rest, t) ELSE rest

\* func (v Volume) buildVolumeTags(now): the four tags of the volume, then the
\* host's tags whose key has no "aws:" prefix, appended in the host's order
RECURSIVE buildVolumeTags(_, _, _)
buildVolumeTags(host, id, now) ==
    IF host.Tags = <<>>
    THEN << [Key |-> "source-instance", Value |-> host.InstanceId],
            [Key |-> "source-instance-arn", Value |-> host.InstanceArn],
            [Key |-> "ebs-autoscale-id", Value |-> id],
            [Key |-> "ebs-autoscale-creation-time", Value |-> TimeString(now)] >>
    ELSE LET n    == Len(host.Tags)
             t    == host.Tags[n]
             rest == buildVolumeTags([host EXCEPT !.Tags = SubSeq(host.Tags, 1, n - 1)],
                                     id, now)
         IN  IF ~HasPrefix(t.Key, "aws:") THEN Append(rest, t) ELSE rest

\* "/dev/xvdb" + string(i) for i := 'a' .. 'z'
Letters == <<"a", "b", "c", "d", "e", "f", "g", "h", "i", "j", "k", "l", "m",
             "n", "o", "p", "q", "r", "s", "t", "u", "v", "w", "x", "y", "z">>
DevicePath(i) == "/dev/xvdb" \o Letters[i]

\* isAvailable(path) for what os.Stat answers: the node exists, it does not
\* exist, or another error
isAvailable(stat) == [b |-> stat = "absent", err |-> stat = "error"]

RECURSIVE getNextLogicalDeviceFromMutant(_, _)
getNextLogicalDeviceFromMutant(probe, i) ==
    IF i > NumDevices
    THEN [device |-> "", err |-> "getNextLogicalDevice"]
    ELSE IF isAvailable(probe[i]).b
         THEN [device |-> DevicePath(i), err |-> "nil"]
         ELSE getNextLogicalDeviceFromMutant(probe, i + 1)

\* getNextLogicalDevice, the loop from candidate i on: probe[i] is what
\* os.Stat answers for candidate i
RECURSIVE getNextLogicalDeviceFrom(_, _)
getNextLogicalDeviceFrom(probe, i) ==
    IF i > NumDevices
    THEN [device |-> "", err |-> "getNextLogicalDevice"]
    ELSE IF isAvailable(probe[i]).err
         THEN [device |-> "", err |-> "isAvailable"]
         ELSE IF isAvailable(probe[i]).b
              THEN [device |-> DevicePath(i), err |-> "nil"]
              ELSE getNextLogicalDeviceFrom(probe, i + 1)

\* no CwLogWriter has been started
NoWriter == [pc |-> "off", MaxBatchSize |-> 0, events |-> 0,
             mainProcessLoop |-> FALSE, closed |-> FALSE, handed |-> 0,
             ctxDone |-> FALSE, errChannel |-> 0, logStreamName |-> "",
             created |-> FALSE, creations |-> 0, putMissing |-> FALSE,
             consumer |-> "off"]

\* bufio ReadBytes('\n') until EOF: every line keeps its delimiter, an empty
\* rest is skipped; cur is the line being read
RECURSIVE ReadLines(_, _)
ReadLines(b, cur) ==
    IF b = <<>> THEN (IF cur = <<>> THEN <<>> ELSE <<cur>>)
    ELSE IF Head(b) = "\n"
         THEN <<Append(cur, "\n")>> \o ReadLines(Tail(b), <<>>)
         ELSE ReadLines(Tail(b), Append(cur, Head(b)))

\* buffer(b, events): the log events added for one written payload
buffer(b) == ReadLines(b, <<>>)

\* no function is being applied on its own
NoEval == [fn |-> "none", arg |-> <<>>, res |-> <<>>, done |-> TRUE]

\* ------------------------------------------------------------------ Init
\* A fresh host: no volume attached, NewVolume has discovered an empty
\* managed set.
Init ==
    /\ cfg \in Configs
    /\ cloud = <<>>
    /\ devNodes = {}
    /\ constructed = TRUE
    /\ ManagedVolumes = <<>>
    /\ copyMV = <<>>
    /\ inRun = FALSE
    /\ pc = "idle"
    /\ op = "none"
    /\ sizeGb = 0
    /\ device = 0
    /\ volId = 0
    /\ err = <<>>
    /\ errList = <<>>
    /\ calls = <<>>
    /\ preMV = <<>>
    /\ cancelled = FALSE
    /\ okCreate = {}
    /\ okGrow = {}
    /\ okTick = {}
    /\ startEmpty = TRUE
    /\ quota = MaxVolumes
    /\ expired = FALSE
    /\ eval = NoEval
    /\ cw = NoWriter

\* --------------------------------------------------------------- actions
G_cfg  == <<cfg, constructed, startEmpty, quota>>
G_hist == <<okCreate, okGrow, okTick>>
G_prov == <<cloud, devNodes>>
G_mv   == <<ManagedVolumes, copyMV>>
G_att  == <<sizeGb, device, volId, errList, preMV>>
G_aux  == <<eval, cw>>

\* the operation returns e to its caller
Finish(e) == pc' = "done" /\ err' = e

\* v.ManagedVolumes = ... on the receiver of the running operation
SetCurMV(mv) == IF inRun THEN copyMV' = mv /\ UNCHANGED ManagedVolumes
                ELSE ManagedVolumes' = mv /\ UNCHANGED copyMV

\* NewVolume: a (new) process describes the attached volumes and keeps the
\* ones tagged with this mount point's id
NewVolume ==
    /\ pc = "idle" /\ ~inRun
    /\ \E ok \in BOOLEAN :
         IF ok
         THEN /\ constructed' = TRUE
              /\ ManagedVolumes' = Discover(Len(cloud))
              /\ startEmpty' = (Discover(Len(cloud)) = <<>>)
         ELSE /\ constructed' = FALSE
              /\ ManagedVolumes' = <<>>
              /\ startEmpty' = TRUE
    /\ cancelled' = FALSE
    /\ okCreate' = {} /\ okGrow' = {} /\ okTick' = {}
    /\ UNCHANGED <<cfg, quota, cloud, devNodes, copyMV, inRun, pc, op, sizeGb, device,
                   volId, err, errList, calls, preMV>>
    /\ UNCHANGED <<expired, G_aux>>

CreateVolumeMutant ==
    /\ pc = "idle" /\ ~inRun /\ constructed
    /\ op' = "CreateVolume"
    /\ sizeGb' = cfg.MaxLogicalSizeGb
    /\ preMV' = ManagedVolumes
    /\ pc' = "precheck"
    /\ UNCHANGED <<G_cfg, G_hist, G_prov, G_mv, inRun, device, volId, err, errList,
                   calls, cancelled>>
    /\ UNCHANGED <<expired, G_aux>>

\* CreateVolume up to the call of createAndAttachEbsVolume(ctx, v.InitialSizeGb)
CreateVolume ==
    /\ pc = "idle" /\ ~inRun /\ constructed
    /\ op' = "CreateVolume"
    /\ sizeGb' = cfg.InitialSizeGb
    /\ preMV' = ManagedVolumes
    /\ pc' = "precheck"
    /\ UNCHANGED <<G_cfg, G_hist, G_prov, G_mv, inRun, device, volId, err, errList,
                   calls, cancelled>>
    /\ UNCHANGED <<expired, G_aux>>

GrowEntryMutant(r) ==
    /\ op' = "GrowVolume"
    /\ IF r.err
       THEN Finish(<<"calculateSizeIncreasePerVolume">>) /\ UNCHANGED sizeGb
       ELSE pc' = "precheck" /\ sizeGb' = cfg.InitialSizeGb /\ UNCHANGED err

\* GrowVolume up to the call of createAndAttachEbsVolume(ctx, sizeIncreasePerVolume)
GrowEntry(r) ==
    /\ op' = "GrowVolume"
    /\ IF r.err
       THEN Finish(<<"calculateSizeIncreasePerVolume">>) /\ UNCHANGED sizeGb
       ELSE pc' = "precheck" /\ sizeGb' = r.val /\ UNCHANGED err

GrowVolume ==
    /\ pc = "idle" /\ ~inRun /\ constructed
    /\ \E r \in calculateSizeIncreasePerVolume(cfg) : GrowEntry(r)
    /\ preMV' = ManagedVolumes
    /\ UNCHANGED <<G_cfg, G_hist, G_prov, G_mv, inRun, device, volId, errList,
                   calls, cancelled>>
    /\ UNCHANGED <<expired, G_aux>>

\* MonitorVolume.Run: NewMonitor copies the Volume, Run starts its ticker
Run ==
    /\ pc = "idle" /\ ~inRun /\ constructed
    /\ inRun' = TRUE
    /\ pc' = "select"
    /\ UNCHANGED <<G_cfg, G_hist, G_prov, G_mv, G_att, op, err, calls, cancelled>>
    /\ UNCHANGED <<expired, G_aux>>

AssessAndGrowMutant ==
    /\ inRun /\ pc \notin {"done", "returned"}
    /\ copyMV' = ManagedVolumes
    /\ preMV' = ManagedVolumes
    /\ \E statOk \in BOOLEAN, total \in {0, 2}, used \in 0..2 :
         /\ used <= total
         /\ IF ~statOk
            THEN op' = "assessAndGrow" /\ Finish(<<"Stat">>) /\ UNCHANGED sizeGb
            ELSE IF TotalUsagePercent(total, used) >= PercentageFull
                 THEN \E r \in calculateSizeIncreasePerVolume(cfg) : GrowEntry(r)
                 ELSE op' = "assessAndGrow" /\ Finish(<<>>) /\ UNCHANGED sizeGb
    /\ UNCHANGED <<G_cfg, G_hist, G_prov, ManagedVolumes, inRun, device, volId,
                   errList, calls, cancelled>>
    /\ UNCHANGED <<expired, G_aux>>

\* case <-ticker.C: m.assessAndGrow(ctx).  assessAndGrow has a value
\* receiver: it works on a copy of Run's MonitorVolume.
\* what Fs.Stat can report: total and used bytes
StatTotals == {0, 2}
StatUsed == 0..2

\* the tick on which Fs.Stat returns (total, used), or fails
AssessAndGrowWith(statOk, total, used) ==
    /\ pc = "select" /\ inRun
    /\ used <= total
    /\ copyMV' = ManagedVolumes
    /\ preMV' = ManagedVolumes
    /\ IF ~statOk
       THEN op' = "assessAndGrow" /\ Finish(<<"Stat">>) /\ UNCHANGED sizeGb
       ELSE IF TotalUsagePercent(total, used) >= PercentageFull
            THEN \E r \in calculateSizeIncreasePerVolume(cfg) : GrowEntry(r)
            ELSE op' = "assessAndGrow" /\ Finish(<<>>) /\ UNCHANGED sizeGb
    /\ UNCHANGED <<G_cfg, G_hist, G_prov, ManagedVolumes, inRun, device, volId,
                   errList, calls, cancelled>>
    /\ UNCHANGED <<expired, G_aux>>

AssessAndGrow ==
    \E statOk \in BOOLEAN, total \in StatTotals, used \in StatUsed :
        AssessAndGrowWith(statOk, total, used)

\* case <-ctx.Done(): return nil
RunCancelled ==
    /\ pc = "select" /\ inRun /\ cancelled
    /\ inRun' = FALSE
    /\ pc' = "returned"
    /\ okTick' = {}
    /\ UNCHANGED <<G_cfg, G_prov, G_mv, G_att, okCreate, okGrow, op, err, calls, cancelled>>
    /\ UNCHANGED <<expired, G_aux>>

RunLoopMutant ==
    /\ pc = "done" /\ inRun
    /\ inRun' = TRUE /\ pc' = "select" /\ UNCHANGED okTick
    /\ copyMV' = <<>>
    /\ op' = "none" /\ sizeGb' = 0 /\ device' = 0 /\ volId' = 0
    /\ err' = <<>> /\ errList' = <<>> /\ calls' = <<>> /\ preMV' = <<>>
    /\ UNCHANGED <<G_cfg, G_prov, ManagedVolumes, okCreate, okGrow, cancelled>>
    /\ UNCHANGED <<expired, G_aux>>

\* Run after assessAndGrow returned: return err, or reset the ticker and loop
RunLoop ==
    /\ pc = "done" /\ inRun
    /\ IF err # <<>> THEN inRun' = FALSE /\ pc' = "returned" /\ okTick' = {}
                     ELSE inRun' = TRUE /\ pc' = "select" /\ UNCHANGED okTick
    /\ copyMV' = <<>>
    /\ op' = "none" /\ sizeGb' = 0 /\ device' = 0 /\ volId' = 0
    /\ errList' = <<>> /\ calls' = <<>> /\ preMV' = <<>>
    /\ UNCHANGED <<G_cfg, G_prov, ManagedVolumes, okCreate, okGrow, cancelled, err>>
    /\ UNCHANGED <<expired, G_aux>>

\* monitorVolume takes the result of Run (err is what Run returned)
RunReturn ==
    /\ pc = "returned"
    /\ pc' = "idle"
    /\ err' = <<>>
    /\ UNCHANGED <<G_cfg, G_hist, G_prov, G_mv, G_att, inRun, op, calls, cancelled>>
    /\ UNCHANGED <<expired, G_aux>>

\* the caller of CreateVolume / GrowVolume takes the result
Return ==
    /\ pc = "done" /\ ~inRun
    /\ pc' = "idle"
    /\ op' = "none" /\ sizeGb' = 0 /\ device' = 0 /\ volId' = 0
    /\ err' = <<>> /\ errList' = <<>> /\ calls' = <<>> /\ preMV' = <<>>
    /\ UNCHANGED <<G_cfg, G_hist, G_prov, G_mv, inRun, cancelled>>
    /\ UNCHANGED <<expired, G_aux>>

\* main: the first interrupt cancels the context
Cancel ==
    /\ constructed /\ ~cancelled
    /\ cancelled' = TRUE
    /\ UNCHANGED <<G_cfg, G_hist, G_prov, G_mv, G_att, inRun, pc, op, err, calls>>
    /\ UNCHANGED <<expired, G_aux>>

\* the operating system exposes the node of an attached volume
DeviceNodeAppears ==
    /\ \E i \in AttachedIds :
         /\ cloud[i].dev # 0 /\ cloud[i].dev \notin devNodes
         /\ devNodes' = devNodes \cup {cloud[i].dev}
    /\ UNCHANGED <<G_cfg, G_hist, G_mv, G_att, cloud, inRun, pc, op, err, calls, cancelled>>
    /\ UNCHANGED <<expired, G_aux>>

\* createAndAttachEbsVolume: the two pre-checks on the receiver's ManagedVolumes
PreCheck ==
    /\ pc = "precheck"
    /\ IF SizeExceeded(managedVolumeSizeGb(CurMV), cfg.MaxLogicalSizeGb)
       THEN Finish(<<"MaxLogicalSizeGb exceeded">>)
       ELSE IF CountReached(Len(CurMV), cfg.MaxCreatedVolumes)
            THEN Finish(<<"MaxCreatedVolumes reached">>)
            ELSE pc' = "probe" /\ UNCHANGED err
    /\ UNCHANGED <<G_cfg, G_hist, G_prov, G_mv, G_att, inRun, op, calls, cancelled>>
    /\ UNCHANGED <<expired, G_aux>>

\* createAndAttachEbsVolume: instanceHasCapacity (DescribeVolumes of the host)
InstanceHasCapacity ==
    /\ pc = "probe"
    /\ \E ok \in Outcomes :
         /\ calls' = Append(calls, Call("DescribeVolumes", 0, 0, ok))
         /\ IF ~ok THEN Finish(<<"DescribeVolumes">>)
            ELSE IF ~HasCapacity(Cardinality(AttachedIds), cfg.MaxAttachedVolumes)
                 THEN Finish(<<"MaxAttachedVolumes exceeded">>)
                 ELSE pc' = "device" /\ UNCHANGED err
    /\ UNCHANGED <<G_cfg, G_hist, G_prov, G_mv, G_att, inRun, op, cancelled>>
    /\ UNCHANGED <<expired, G_aux>>

\* createAndAttachEbsVolume: getNextLogicalDevice (os.Stat may fail)
GetNextLogicalDevice ==
    /\ pc = "device"
    /\ \E statOk \in BOOLEAN :
         IF ~statOk THEN Finish(<<"isAvailable">>) /\ UNCHANGED device
         ELSE IF getNextLogicalDevice = 0
              THEN Finish(<<"getNextLogicalDevice">>) /\ UNCHANGED device
              ELSE device' = getNextLogicalDevice /\ pc' = "create" /\ UNCHANGED err
    /\ UNCHANGED <<G_cfg, G_hist, G_prov, G_mv, inRun, op, sizeGb, volId, errList,
                   preMV, calls, cancelled>>
    /\ UNCHANGED <<expired, G_aux>>

Ec2CreateVolumeMutant ==
    /\ pc = "create"
    /\ \E ok \in Outcomes :
         LET done == ok /\ Len(cloud) < quota /\ sizeGb >= 1 /\ sizeGb <= 2^16
         IN  /\ calls' = Append(calls, Call("CreateVolume", 0, sizeGb, done))
             /\ IF done
                THEN /\ cloud' = Append(cloud, [size |-> sizeGb, st |-> "available", tag |-> Id,
                                                dot |-> FALSE, dev |-> 0])
                     /\ volId' = Len(cloud) + 1
                     /\ pc' = "wait"
                     /\ UNCHANGED <<err, G_mv>>
                ELSE /\ Finish(<<"CreateVolume">>)
                     /\ SetCurMV(Append(CurMV, [id |-> 0, size |-> sizeGb, tag |-> Id]))
                     /\ UNCHANGED <<cloud, volId>>
    /\ UNCHANGED <<G_cfg, G_hist, devNodes, inRun, op, sizeGb, device, errList,
                   preMV, cancelled>>
    /\ UNCHANGED <<expired, G_aux>>

\* createAndAttachEbsVolume: ec2Client.CreateVolume.  The provider refuses a
\* size that is not a volume size, and more volumes than the quota.
Ec2CreateVolume ==
    /\ pc = "create"
    /\ \E ok \in Outcomes :
         LET done == ok /\ Len(cloud) < quota /\ sizeGb >= 1 /\ sizeGb <= 2^16
         IN  /\ calls' = Append(calls, Call("CreateVolume", 0, sizeGb, done))
             /\ IF done
                THEN /\ cloud' = Append(cloud, [size |-> sizeGb, st |-> "available", tag |-> Id,
                                                dot |-> FALSE, dev |-> 0])
                     /\ volId' = Len(cloud) + 1
                     /\ pc' = "wait"
                     /\ UNCHANGED err
                ELSE Finish(<<"CreateVolume">>) /\ UNCHANGED <<cloud, volId>>
    /\ UNCHANGED <<G_cfg, G_hist, G_mv, devNodes, inRun, op, sizeGb, device, errList,
                   preMV, cancelled>>
    /\ UNCHANGED <<expired, G_aux>>

VolWaiterWaitMutant ==
    /\ pc = "wait"
    /\ \E ok \in Outcomes :
         /\ calls' = Append(calls, Call("WaitAvailable", volId, 0, ok))
         /\ pc' = "attach"
         /\ UNCHANGED err
    /\ UNCHANGED <<G_cfg, G_hist, G_prov, G_mv, G_att, inRun, op, cancelled>>
    /\ UNCHANGED <<expired, G_aux>>

\* createAndAttachEbsVolume: volWaiter.Wait (20s) until the provider reports
\* the new volume available; failure starts removeVolume
VolWaiterWait ==
    /\ pc = "wait"
    /\ \E ok \in Outcomes :
         /\ calls' = Append(calls, Call("WaitAvailable", volId, 0, ok))
         /\ IF ok
            THEN /\ pc' = "attach"
                 /\ UNCHANGED err
            ELSE /\ err' = <<"WaitAvailable">>
                 /\ pc' = "rb_detach"
    /\ UNCHANGED <<G_cfg, G_hist, G_prov, G_mv, G_att, inRun, op, cancelled>>
    /\ UNCHANGED <<expired, G_aux>>

\* createAndAttachEbsVolume: ec2Client.AttachVolume, then the append to
\* ManagedVolumes; failure starts removeVolume.  The provider refuses a
\* device another attached volume occupies.
AttachVolume ==
    /\ pc = "attach"
    /\ \E ok \in Outcomes :
         LET free == \A i \in AttachedIds : cloud[i].dev # device
             done == ok /\ free
         IN  /\ calls' = Append(calls, Call("AttachVolume", volId, device, done))
             /\ SetCurMV(RecordsAfterAttach(CurMV, done,
                             createVolumeOutputToVolume(volId, cloud[volId])))
             /\ IF done
                THEN /\ cloud' = [cloud EXCEPT ![volId].st = "in-use", ![volId].dev = device]
                     /\ pc' = "modify"
                     /\ UNCHANGED err
                ELSE /\ err' = <<"AttachVolume">>
                     /\ pc' = "rb_detach"
                     /\ UNCHANGED cloud
    /\ UNCHANGED <<G_cfg, G_hist, G_att, devNodes, inRun, op, cancelled>>
    /\ UNCHANGED <<expired, G_aux>>

\* createAndAttachEbsVolume: ModifyInstanceAttribute (delete on termination);
\* failure starts removeVolume
ModifyInstanceAttribute ==
    /\ pc = "modify"
    /\ \E ok \in Outcomes :
         /\ calls' = Append(calls, Call("ModifyInstanceAttribute", volId, device, ok))
         /\ IF ok
            THEN /\ cloud' = [cloud EXCEPT ![volId].dot = TRUE]
                 /\ pc' = "localwait"
                 /\ UNCHANGED err
            ELSE /\ err' = <<"ModifyInstanceAttribute">>
                 /\ pc' = "rb_detach"
                 /\ UNCHANGED cloud
    /\ UNCHANGED <<G_cfg, G_hist, G_mv, G_att, devNodes, inRun, op, cancelled>>
    /\ UNCHANGED <<expired, G_aux>>

\* removeVolume: DetachVolume
RemoveVolumeDetach ==
    /\ pc = "rb_detach"
    /\ \E ok \in Outcomes :
         /\ calls' = Append(calls, Call("DetachVolume", volId, 0, ok))
         /\ errList' = Collect(errList, ok, "DetachVolume")
         /\ IF ok /\ cloud[volId].st = "in-use"
            THEN /\ cloud' = [cloud EXCEPT ![volId].st = "available", ![volId].dev = 0]
                 /\ devNodes' = devNodes \ {cloud[volId].dev}
            ELSE UNCHANGED <<cloud, devNodes>>
    /\ pc' = "rb_wait"
    /\ UNCHANGED <<G_cfg, G_hist, G_mv, inRun, op, sizeGb, device, volId, err, preMV,
                   cancelled>>
    /\ UNCHANGED <<expired, G_aux>>

\* removeVolume: volWaiter.Wait (20s); a volume that stays attached never
\* becomes available
RemoveVolumeWait ==
    /\ pc = "rb_wait"
    /\ \E ok \in Outcomes :
         LET done == ok /\ cloud[volId].st = "available"
         IN  /\ calls' = Append(calls, Call("RollbackWait", volId, 0, done))
             /\ errList' = Collect(errList, done, "RollbackWait")
    /\ pc' = "rb_delete"
    /\ UNCHANGED <<G_cfg, G_hist, G_prov, G_mv, inRun, op, sizeGb, device, volId, err,
                   preMV, cancelled>>
    /\ UNCHANGED <<expired, G_aux>>

\* removeVolume: DeleteVolume, then errors.Join(errList...) and the return of
\* createAndAttachEbsVolume.  The provider refuses to delete an attached volume.
RemoveVolumeDelete ==
    /\ pc = "rb_delete"
    /\ \E ok \in Outcomes :
         LET done == ok /\ cloud[volId].st # "in-use"
         IN  /\ calls' = Append(calls, Call("DeleteVolume", volId, 0, done))
             /\ errList' = Collect(errList, done, "DeleteVolume")
             /\ IF done THEN cloud' = [cloud EXCEPT ![volId].st = "deleted"]
                        ELSE UNCHANGED cloud
    /\ Finish(ReturnAfterRollback(err, errList'))
    /\ UNCHANGED <<G_cfg, G_hist, G_mv, devNodes, inRun, op, sizeGb, device, volId,
                   preMV, cancelled>>
    /\ UNCHANGED <<expired, G_aux>>

LocalVolAvailabilityWaiterNoTimeout ==
    /\ pc = "localwait"
    /\ \E r \in {"node", "timeout", "stat"} :
         CASE r = "node"    -> /\ device \in devNodes
                               /\ pc' = "fs"
                               /\ UNCHANGED <<err, devNodes>>
           [] r = "timeout" -> /\ cancelled
                               /\ Finish(<<"localVolAvailabilityWaiter">>)
                               /\ UNCHANGED devNodes
           [] r = "stat"    -> /\ Finish(<<"isAvailable">>)
                               /\ UNCHANGED devNodes
    /\ expired' = FALSE
    /\ UNCHANGED G_aux
    /\ UNCHANGED <<G_cfg, G_hist, G_mv, G_att, cloud, inRun, op, calls, cancelled>>

LocalVolAvailabilityWaiterBackground ==
    /\ pc = "localwait"
    /\ \E r \in {"node", "timeout", "stat"} :
         CASE r = "node"    -> /\ device \in devNodes
                               /\ pc' = "fs"
                               /\ UNCHANGED <<err, devNodes>>
           [] r = "timeout" -> /\ expired
                               /\ Finish(<<"localVolAvailabilityWaiter">>)
                               /\ UNCHANGED devNodes
           [] r = "stat"    -> /\ Finish(<<"isAvailable">>)
                               /\ UNCHANGED devNodes
    /\ expired' = FALSE
    /\ UNCHANGED G_aux
    /\ UNCHANGED <<G_cfg, G_hist, G_mv, G_att, cloud, inRun, op, calls, cancelled>>

LocalVolAvailabilityWaiterMutant ==
    /\ pc = "localwait"
    /\ \E r \in {"node", "timeout", "stat"} :
         CASE r = "node"    -> /\ device \in devNodes
                               /\ pc' = "fs"
                               /\ UNCHANGED <<err, devNodes>>
           [] r = "timeout" -> /\ expired \/ cancelled
                               /\ err' = <<"localVolAvailabilityWaiter">>
                               /\ pc' = "rb_detach"
                               /\ UNCHANGED devNodes
           [] r = "stat"    -> /\ Finish(<<"isAvailable">>)
                               /\ UNCHANGED devNodes
    /\ expired' = FALSE
    /\ UNCHANGED G_aux
    /\ UNCHANGED <<G_cfg, G_hist, G_mv, G_att, cloud, inRun, op, calls, cancelled>>

\* time passes: the 50s of the running localVolAvailabilityWaiter are over
TimeoutElapses ==
    /\ pc = "localwait" /\ ~expired
    /\ expired' = TRUE
    /\ UNCHANGED G_aux
    /\ UNCHANGED <<G_cfg, G_hist, G_prov, G_mv, G_att, inRun, pc, op, err, calls, cancelled>>

\* createAndAttachEbsVolume: localVolAvailabilityWaiter (50s): the node shows
\* up, or the wait ends on ctxTimeout.Done() (the 50s passed without a node,
\* or ctx is cancelled), or os.Stat fails
LocalVolAvailabilityWaiter ==
    /\ pc = "localwait"
    /\ \E r \in {"node", "timeout", "stat"} :
         CASE r = "node"    -> /\ device \in devNodes
                               /\ pc' = "fs"
                               /\ UNCHANGED <<err, devNodes>>
           [] r = "timeout" -> /\ expired \/ cancelled
                               /\ Finish(<<"localVolAvailabilityWaiter">>)
                               /\ UNCHANGED devNodes
           [] r = "stat"    -> /\ Finish(<<"isAvailable">>)
                               /\ UNCHANGED devNodes
    /\ expired' = FALSE
    /\ UNCHANGED G_aux
    /\ UNCHANGED <<G_cfg, G_hist, G_mv, G_att, cloud, inRun, op, calls, cancelled>>

\* CreateVolume / GrowVolume: v.Fs.CreateFileSystem(*device) / v.Fs.GrowFileSystem(*device)
FsCall == IF op = "CreateVolume" THEN "CreateFileSystem" ELSE "GrowFileSystem"

FileSystemStep ==
    /\ pc = "fs"
    /\ \E ok \in BOOLEAN :
         /\ calls' = Append(calls, Call(FsCall, volId, device, ok))
         /\ IF ok
            THEN /\ Finish(<<>>)
                 /\ IF op = "CreateVolume"
                    THEN okCreate' = okCreate \cup {volId} /\ UNCHANGED <<okGrow, okTick>>
                    ELSE IF inRun
                         THEN okTick' = okTick \cup {volId} /\ UNCHANGED <<okCreate, okGrow>>
                         ELSE okGrow' = okGrow \cup {volId} /\ UNCHANGED <<okCreate, okTick>>
            ELSE /\ Finish(<<FsCall>>)
                 /\ UNCHANGED G_hist
    /\ UNCHANGED <<G_cfg, G_prov, G_mv, G_att, inRun, op, cancelled>>
    /\ UNCHANGED <<expired, G_aux>>

Next ==
    \/ NewVolume
    \/ CreateVolume
    \/ GrowVolume
    \/ Run
    \/ AssessAndGrow
    \/ RunCancelled
    \/ RunLoop
    \/ RunReturn
    \/ Return
    \/ Cancel
    \/ DeviceNodeAppears
    \/ PreCheck
    \/ InstanceHasCapacity
    \/ GetNextLogicalDevice
    \/ Ec2CreateVolume
    \/ VolWaiterWait
    \/ AttachVolume
    \/ ModifyInstanceAttribute
    \/ RemoveVolumeDetach
    \/ RemoveVolumeWait
    \/ RemoveVolumeDelete
    \/ TimeoutElapses
    \/ LocalVolAvailabilityWaiter
    \/ FileSystemStep

Spec == Init /\ [][Next]_vars

\* A longer history on one valid configuration: the provider lets the host
\* create one volume more.
LongConfigs == {c \in Configs : /\ c.InitialSizeGb = 1
                                /\ c.MaxLogicalSizeGb = MaxGb
                                /\ c.MaxAttachedVolumes = MaxAttach
                                /\ c.MaxCreatedVolumes = 2}

InitLong ==
    /\ cfg \in LongConfigs
    /\ cloud = <<>>
    /\ devNodes = {}
    /\ constructed = TRUE
    /\ ManagedVolumes = <<>>
    /\ copyMV = <<>>
    /\ inRun = FALSE
    /\ pc = "idle"
    /\ op = "none"
    /\ sizeGb = 0
    /\ device = 0
    /\ volId = 0
    /\ err = <<>>
    /\ errList = <<>>
    /\ calls = <<>>
    /\ preMV = <<>>
    /\ cancelled = FALSE
    /\ okCreate = {}
    /\ okGrow = {}
    /\ okTick = {}
    /\ startEmpty = TRUE
    /\ quota = MaxVolumes + 1
    /\ expired = FALSE
    /\ eval = NoEval
    /\ cw = NoWriter

SpecLong == InitLong /\ [][Next]_vars

\* One valid configuration on a host where the provider lets one volume be
\* created; used with fairness conditions.
InitFair ==
    /\ cfg \in LongConfigs
    /\ cloud = <<>>
    /\ devNodes = {}
    /\ constructed = TRUE
    /\ ManagedVolumes = <<>>
    /\ copyMV = <<>>
    /\ inRun = FALSE
    /\ pc = "idle"
    /\ op = "none"
    /\ sizeGb = 0
    /\ device = 0
    /\ volId = 0
    /\ err = <<>>
    /\ errList = <<>>
    /\ calls = <<>>
    /\ preMV = <<>>
    /\ cancelled = FALSE
    /\ okCreate = {}
    /\ okGrow = {}
    /\ okTick = {}
    /\ startEmpty = TRUE
    /\ quota = 1
    /\ expired = FALSE
    /\ eval = NoEval
    /\ cw = NoWriter

\* the local poll returns because it saw the node or because ctxTimeout is done
LocalPollReturns == LocalVolAvailabilityWaiter /\ err' # <<"isAvailable">>

\* a blocking wait observes the cancelled context: the two provider waiters,
\* the local poll, and the select of Run.  No time needs to pass for these.
CancelledWaitStep ==
    /\ cancelled
    /\ VolWaiterWait \/ RemoveVolumeWait \/ LocalPollReturns \/ RunCancelled

SpecFairCancel == InitFair /\ [][Next]_vars /\ WF_vars(CancelledWaitStep)

\* a step of createAndAttachEbsVolume, removeVolume or the filesystem call:
\* each remote or local call returns, each provider waiter returns within
\* its 20s
ProtocolStep ==
    \/ PreCheck \/ InstanceHasCapacity \/ GetNextLogicalDevice \/ Ec2CreateVolume
    \/ VolWaiterWait \/ AttachVolume \/ ModifyInstanceAttribute
    \/ RemoveVolumeDetach \/ RemoveVolumeWait \/ RemoveVolumeDelete
    \/ LocalPollReturns \/ FileSystemStep

SpecFair == InitFair /\ [][Next]_vars /\ WF_vars(ProtocolStep) /\ WF_vars(TimeoutElapses)

\* ------------------------------------------- functions applied on their own
\* The program is at rest; eval holds the argument of one function.
G_prog == <<cfg, cloud, devNodes, constructed, ManagedVolumes, copyMV, inRun, pc, op,
            sizeGb, device, volId, err, errList, calls, preMV, cancelled,
            okCreate, okGrow, okTick, startEmpty, quota, expired>>

ProgramAtRest ==
    /\ cfg \in LongConfigs
    /\ cloud = <<>>
    /\ devNodes = {}
    /\ constructed = FALSE
    /\ ManagedVolumes = <<>>
    /\ copyMV = <<>>
    /\ inRun = FALSE
    /\ pc = "idle"
    /\ op = "none"
    /\ sizeGb = 0
    /\ device = 0
    /\ volId = 0
    /\ err = <<>>
    /\ errList = <<>>
    /\ calls = <<>>
    /\ preMV = <<>>
    /\ cancelled = FALSE
    /\ okCreate = {}
    /\ okGrow = {}
    /\ okTick = {}
    /\ startEmpty = TRUE
    /\ quota = MaxVolumes
    /\ expired = FALSE

InitEval(E) ==
    /\ ProgramAtRest
    /\ cw = NoWriter
    /\ \E a \in E.args : eval = [fn |-> E.fn, arg |-> a, res |-> <<>>, done |-> FALSE]

\* host tags: ordinary keys, reserved keys, and keys that only look reserved
TagKeys == {"HostName", "HostLabel", "aws:HostLabel", "aws:", "aws", "Name:aws:"}
HostTags == UNION {[1..n -> [Key : TagKeys, Value : {"v"}]] : n \in 0..MaxHostTags}
TagArgs == [host : [InstanceId : {"i-0bob"}, InstanceArn : {"arn:bob"}, Tags : HostTags],
            id   : {Id, OtherId},
            now  : {"t1", "t2"}]

ApplyBuildVolumeTags ==
    /\ eval.fn = "buildVolumeTags" /\ ~eval.done
    /\ eval' = [eval EXCEPT !.res = buildVolumeTags(eval.arg.host, eval.arg.id, eval.arg.now),
                            !.done = TRUE]
    /\ UNCHANGED <<G_prog, cw>>

SpecTags == InitEval([fn |-> "buildVolumeTags", args |-> TagArgs])
            /\ [][ApplyBuildVolumeTags]_vars

\* what os.Stat answers for the 26 candidates: nodes exist for the first
\* lead candidates, the next MaxProbe answers vary freely, the remaining
\* candidates all answer alike
StatAnswers == {"exists", "absent", "error"}
ProbeArgs ==
    {[i \in 1..NumDevices |->
         IF i <= lead THEN "exists"
         ELSE IF i <= lead + MaxProbe THEN mid[i - lead]
         ELSE tail] :
       lead \in 0..(NumDevices - MaxProbe), mid \in [1..MaxProbe -> StatAnswers],
       tail \in StatAnswers}

ApplyGetNextLogicalDevice ==
    /\ eval.fn = "getNextLogicalDevice" /\ ~eval.done
    /\ eval' = [eval EXCEPT !.res = getNextLogicalDeviceFrom(eval.arg, 1), !.done = TRUE]
    /\ UNCHANGED <<G_prog, cw>>

SpecDevice == InitEval([fn |-> "getNextLogicalDevice", args |-> ProbeArgs])
              /\ [][ApplyGetNextLogicalDevice]_vars

\* sets of managed volumes: sizes an EBS volume can have, the tests' 51 and 10
\* and the largest size among them
SizesGb == {1, 10, 51, 16384}
RecordArgs == UNION {[1..n -> [id : {0}, size : SizesGb, tag : {Id}]] : n \in 0..MaxRecords}

\* the receiver is passed by value: eval.arg is v.ManagedVolumes
ApplyManagedVolumeSizeGb ==
    /\ eval.fn = "managedVolumeSizeGb" /\ ~eval.done
    /\ eval' = [eval EXCEPT !.res = managedVolumeSizeGb(eval.arg), !.done = TRUE]
    /\ UNCHANGED <<G_prog, cw>>

SpecSize == InitEval([fn |-> "managedVolumeSizeGb", args |-> RecordArgs])
            /\ [][ApplyManagedVolumeSizeGb]_vars

\* what Fs.Stat returns: totals of the tests and smaller ones, used sizes up
\* to the total, with and without an error
StatSizes == {0, 3, 7, 100, 200}
StatArgs == {st \in [total : StatSizes, used : 0..200, err : BOOLEAN] :
               /\ st.used <= st.total
               /\ st.used \in (0..MaxUsed) \cup {st.total \div 2, st.total}}

ApplyTotalUsagePercent ==
    /\ eval.fn = "TotalUsagePercent" /\ ~eval.done
    /\ eval' = [eval EXCEPT !.res = TotalUsagePercentOf(eval.arg), !.done = TRUE]
    /\ UNCHANGED <<G_prog, cw>>

SpecUsage == InitEval([fn |-> "TotalUsagePercent", args |-> StatArgs])
             /\ [][ApplyTotalUsagePercent]_vars

\* ---------------------------------------------------------- the log writer
\* initLogger has started processLogs, which is gathering its first batch,
\* and the goroutine that consumes ErrChannel.
Payloads == UNION {[1..n -> {"x", "\n"}] : n \in 0..MaxBytes}

InitLog ==
    /\ ProgramAtRest
    /\ eval = NoEval
    /\ \E n \in 1..MaxBatch :
         cw = [NoWriter EXCEPT !.pc = "gather", !.MaxBatchSize = n,
                               !.mainProcessLoop = TRUE, !.consumer = "select"]

\* the position after the batch has been dealt with
LoopAgain == IF cw.mainProcessLoop THEN "gather" ELSE "stopped"

\* a call to the log service made with a cancelled context fails
LogOutcomes == IF cw.ctxDone THEN {FALSE} ELSE BOOLEAN

\* an unrecovered panic in either goroutine ends the process
Running == cw.pc # "panicked" /\ cw.consumer # "panicked"

\* the context given to Start is cancelled
LogCancel ==
    /\ Running
    /\ cw.pc # "off" /\ ~cw.ctxDone
    /\ cw' = [cw EXCEPT !.ctxDone = TRUE]
    /\ UNCHANGED <<G_prog, eval>>

\* func (c CwLogWriter) Close(): closes inputChannel and ErrChannel
Close ==
    /\ Running
    /\ cw.pc # "off" /\ ~cw.closed
    /\ cw' = [cw EXCEPT !.closed = TRUE]
    /\ UNCHANGED <<G_prog, eval>>

\* case <-expire
LogExpire ==
    /\ Running
    /\ cw.pc = "gather"
    /\ cw' = [cw EXCEPT !.pc = "flush"]
    /\ UNCHANGED <<G_prog, eval>>

\* case <-ctx.Done()
LogCtxDone ==
    /\ Running
    /\ cw.pc = "gather" /\ cw.ctxDone
    /\ cw' = [cw EXCEPT !.mainProcessLoop = FALSE, !.pc = "flush"]
    /\ UNCHANGED <<G_prog, eval>>

\* case logLine, ok := <-c.inputChannel with ok: a Write of the application
\* hands over p
LogReceive ==
    /\ Running
    /\ cw.pc = "gather" /\ ~cw.closed
    /\ \E p \in Payloads :
         LET size == cw.events + Len(buffer(p))
         IN  /\ size <= MaxEvents
             /\ cw' = [cw EXCEPT !.events = size,
                                 !.pc = IF size = cw.MaxBatchSize THEN "flush" ELSE "gather"]
    /\ UNCHANGED <<G_prog, eval>>

\* the same case, the Write being the consumer's slog.Error of one line
LogReceiveConsumer ==
    /\ Running
    /\ cw.pc = "gather" /\ ~cw.closed /\ cw.consumer = "write"
    /\ cw.events + 1 <= MaxEvents
    /\ cw' = [cw EXCEPT !.events = @ + 1,
                        !.pc = IF cw.events + 1 = cw.MaxBatchSize THEN "flush" ELSE "gather",
                        !.consumer = "select"]
    /\ UNCHANGED <<G_prog, eval>>

\* the same case with ok false: the channel is closed, buffer(nil) adds nothing
LogClosed ==
    /\ Running
    /\ cw.pc = "gather" /\ cw.closed
    /\ cw' = [cw EXCEPT !.mainProcessLoop = FALSE, !.pc = "flush"]
    /\ UNCHANGED <<G_prog, eval>>

\* after the gather loop: a non-empty batch is handed to writeLogs, which
\* creates the stream when logStreamName is empty and then puts the events
\* (which fails on a stream that does not exist); processLogs keeps the name
\* writeLogs returns
LogFlush ==
    /\ Running
    /\ cw.pc = "flush"
    /\ IF cw.events = 0
       THEN cw' = [cw EXCEPT !.pc = LoopAgain]
       ELSE \E createOk \in LogOutcomes, putOk \in LogOutcomes :
              LET create == cw.logStreamName = ""
                  put    == ~create \/ createOk
                  exists == cw.created \/ (create /\ createOk)
                  failed == (create /\ ~createOk) \/ (put /\ ~(putOk /\ exists))
              IN  cw' = [cw EXCEPT
                           !.handed = cw.events,
                           !.logStreamName = "ebs-autoscale-uuid",
                           !.created = exists,
                           !.creations = IF create /\ createOk THEN @ + 1 ELSE @,
                           !.putMissing = @ \/ (put /\ ~exists),
                           !.events = IF failed THEN @ ELSE 0,
                           !.pc = IF failed THEN "send" ELSE LoopAgain]
    /\ UNCHANGED <<G_prog, eval>>

\* c.ErrChannel <- err, then currentBatch.clear(): the send panics on a
\* closed channel and waits while the one-place buffer is full
LogSend ==
    /\ Running
    /\ cw.pc = "send"
    /\ IF cw.closed
       THEN cw' = [cw EXCEPT !.pc = "panicked"]
       ELSE /\ cw.errChannel = 0
            /\ cw' = [cw EXCEPT !.errChannel = 1, !.events = 0, !.pc = LoopAgain]
    /\ UNCHANGED <<G_prog, eval>>

\* case err, ok := <-writer.ErrChannel with ok: slog.Error writes to the
\* log output, which includes this writer
ConsumerReceive ==
    /\ Running
    /\ cw.consumer = "select" /\ cw.errChannel = 1
    /\ cw' = [cw EXCEPT !.errChannel = 0, !.consumer = "write"]
    /\ UNCHANGED <<G_prog, eval>>

\* the same case with ok false: err is nil and err.Error() panics
ConsumerClosed ==
    /\ Running
    /\ cw.consumer = "select" /\ cw.errChannel = 0 /\ cw.closed
    /\ cw' = [cw EXCEPT !.consumer = "panicked"]
    /\ UNCHANGED <<G_prog, eval>>

\* case <-ctx.Done()
ConsumerCtxDone ==
    /\ Running
    /\ cw.consumer = "select" /\ cw.ctxDone
    /\ cw' = [cw EXCEPT !.consumer = "exited"]
    /\ UNCHANGED <<G_prog, eval>>

\* the consumer's Write sends on the closed inputChannel
ConsumerWriteClosed ==
    /\ Running
    /\ cw.consumer = "write" /\ cw.closed
    /\ cw' = [cw EXCEPT !.consumer = "panicked"]
    /\ UNCHANGED <<G_prog, eval>>

ProcessLogsStep == LogExpire \/ LogCtxDone \/ LogReceive \/ LogReceiveConsumer
                   \/ LogClosed \/ LogFlush \/ LogSend
ConsumerStep == ConsumerReceive \/ ConsumerClosed \/ ConsumerCtxDone \/ ConsumerWriteClosed

NextLog == LogCancel \/ Close \/ LogExpire \/ LogCtxDone \/ LogReceive
           \/ LogReceiveConsumer \/ LogClosed \/ LogFlush \/ LogSend
           \/ ConsumerReceive \/ ConsumerClosed \/ ConsumerCtxDone \/ ConsumerWriteClosed

SpecLog == InitLog /\ [][NextLog]_vars

\* the two goroutines are scheduled, and a select whose cancellation or
\* closed-channel case is ready again and again eventually takes it
SpecLogFair == /\ InitLog /\ [][NextLog]_vars
               /\ SF_vars(LogCtxDone) /\ SF_vars(LogClosed)
               /\ WF_vars(LogFlush) /\ WF_vars(LogSend)
               /\ WF_vars(ConsumerStep)

\* Construction on a host that already has volumes: attached or not, tagged
\* for this mount point, for another one, or not at all.
VolumeKinds == [size : 1..2, st : {"in-use", "available"}, tag : TagValues]
HostVolumes == UNION {[1..n -> VolumeKinds] : n \in 0..MaxForeign}

HostInit(H) ==
    /\ cfg \in LongConfigs
    /\ \E h \in H :
         /\ cloud = [i \in DOMAIN h |->
                        [size |-> h[i].size, st |-> h[i].st, tag |-> h[i].tag, dot |-> FALSE,
                         dev |-> IF h[i].st = "in-use" THEN i ELSE 0]]
         /\ devNodes = {i \in DOMAIN h : h[i].st = "in-use"}
    /\ constructed = FALSE
    /\ ManagedVolumes = <<>>
    /\ copyMV = <<>>
    /\ inRun = FALSE
    /\ pc = "idle"
    /\ op = "none"
    /\ sizeGb = 0
    /\ device = 0
    /\ volId = 0
    /\ err = <<>>
    /\ errList = <<>>
    /\ calls = <<>>
    /\ preMV = <<>>
    /\ cancelled = FALSE
    /\ okCreate = {}
    /\ okGrow = {}
    /\ okTick = {}
    /\ startEmpty = TRUE
    /\ quota = MaxVolumes
    /\ expired = FALSE
    /\ eval = NoEval
    /\ cw = NoWriter

InitDiscover == HostInit(HostVolumes)

SpecDiscover == InitDiscover /\ [][NewVolume]_vars

\* The whole program on a host that has at most one volume of size 1 before
\* the first construction.
InitHost == HostInit({h \in HostVolumes : Len(h) <= 1 /\ \A i \in DOMAIN h : h[i].size = 1})

SpecHost == InitHost /\ [][Next]_vars

\* ---------------------------------------------------------------- claims
BetweenOperations == pc \in {"idle", "done", "returned"}

Ids(mv) == {mv[k].id : k \in DOMAIN mv}

CallsNamed(name) == {i \in DOMAIN calls : calls[i].call = name}

ValidCfg == cfg.MaxCreatedVolumes > 1 /\ cfg.MaxLogicalSizeGb > cfg.InitialSizeGb

RECURSIVE SumCloudSizes(_)
SumCloudSizes(S) == IF S = {} THEN 0
                    ELSE LET i == CHOOSE x \in S : TRUE
                         IN  cloud[i].size + SumCloudSizes(S \ {i})

\* removeVolume was entered in this attempt; the step whose failure entered it
RolledBack == CallsNamed("DetachVolume") # {}
FirstDetach == CHOOSE i \in CallsNamed("DetachVolume") :
                   \A j \in CallsNamed("DetachVolume") : i <= j
Trigger == calls[FirstDetach - 1].call

\* the names of the failed calls among calls[from..], in order
RECURSIVE FailedFrom(_)
FailedFrom(from) ==
    IF from > Len(calls) THEN <<>>
    ELSE IF calls[from].ok THEN FailedFrom(from + 1)
         ELSE <<calls[from].call>> \o FailedFrom(from + 1)

\* C1: between operations the sizes recorded in ManagedVolumes sum to at
\* most MaxLogicalSizeGb (an attempt that would exceed it is aborted).
\* Stated for the valid configurations.
C1_SumWithinMax ==
    (ValidCfg /\ BetweenOperations) =>
        managedVolumeSizeGb(ManagedVolumes) <= cfg.MaxLogicalSizeGb

\* C2: between operations, discovery included, ManagedVolumes holds at most
\* MaxCreatedVolumes records.
C2_CountWithinMax ==
    BetweenOperations => Len(ManagedVolumes) <= cfg.MaxCreatedVolumes

\* C3: within one Run, the pre-check of a growth attempt works on a
\* ManagedVolumes that holds the record of every volume an earlier tick of
\* this Run grew successfully.
C3_TickSeesEarlierGrows ==
    (inRun /\ pc = "precheck") => okTick \subseteq Ids(CurMV)

\* C4: the record an attempt appended refers to a volume whose
\* delete-on-termination mark was set (append only after create, wait, attach
\* and mark all succeeded).
C4_RecordImpliesMark ==
    (pc = "done" /\ volId \in Ids(CurMV)) => cloud[volId].dot

\* C5: create succeeded and attach failed: one detach and one delete were
\* issued, both for the created volume, and ManagedVolumes is what it was
\* before the attempt.
C5_AttachFailureCompensated ==
    (pc = "done" /\ err # <<>> /\ Head(err) = "AttachVolume") =>
        /\ Cardinality(CallsNamed("DetachVolume")) = 1
        /\ Cardinality(CallsNamed("DeleteVolume")) = 1
        /\ Count("DetachVolume", volId) = 1
        /\ Count("DeleteVolume", volId) = 1
        /\ CurMV = preMV

C5_Witness ==
    /\ pc = "done" /\ err # <<>> /\ Head(err) = "AttachVolume"
    /\ calls[Len(calls)].call = "DeleteVolume"
    /\ preMV # <<>>

\* C6: a failed availability wait, attach or delete-on-termination call is
\* followed by exactly one rollback, and the error returned is the
\* triggering error followed by every error of the rollback.
C6_TriggerJoinedWithRollback ==
    /\ (pc = "done" /\ \E i \in DOMAIN calls :
            /\ calls[i].call \in {"WaitAvailable", "AttachVolume", "ModifyInstanceAttribute"}
            /\ ~calls[i].ok)
         => RolledBack
    /\ (pc = "done" /\ RolledBack) =>
         /\ Trigger \in {"WaitAvailable", "AttachVolume", "ModifyInstanceAttribute"}
         /\ ~calls[FirstDetach - 1].ok
         /\ Cardinality(CallsNamed("DetachVolume")) = 1
         /\ Cardinality(CallsNamed("RollbackWait")) = 1
         /\ Cardinality(CallsNamed("DeleteVolume")) = 1
         /\ err = <<Trigger>> \o FailedFrom(FirstDetach)

C6_Witness ==
    /\ pc = "done" /\ RolledBack
    /\ Trigger = "ModifyInstanceAttribute"
    /\ Len(err) > 1

\* C7: rollback issues detach, the availability wait and delete for the
\* volume, once each and in this order, whatever the earlier steps returned;
\* its result lists the failed steps in order, and is nil exactly when all
\* three succeeded.
C7_RollbackAllSteps ==
    (pc = "done" /\ RolledBack) =>
        /\ Len(calls) = FirstDetach + 2
        /\ calls[FirstDetach].call = "DetachVolume"
        /\ calls[FirstDetach + 1].call = "RollbackWait"
        /\ calls[FirstDetach + 2].call = "DeleteVolume"
        /\ \A i \in FirstDetach..(FirstDetach + 2) : calls[i].vol = volId
        /\ errList = FailedFrom(FirstDetach)
        /\ (errList = <<>>) <=> (\A i \in FirstDetach..(FirstDetach + 2) : calls[i].ok)

C7_Witness ==
    /\ pc = "done" /\ RolledBack
    /\ ~calls[FirstDetach].ok
    /\ calls[FirstDetach + 2].ok

\* C8: a GrowVolume that starts with managedVolumeSizeGb() = MaxLogicalSizeGb
\* or len(ManagedVolumes) = MaxCreatedVolumes issues no remote call and
\* fails with the capacity error.  Stated for the valid configurations
\* (where the increment calculation that runs first does not fail).
C8_GrowAtCapacityFails ==
    (/\ ValidCfg
     /\ op = "GrowVolume"
     /\ \/ managedVolumeSizeGb(preMV) = cfg.MaxLogicalSizeGb
        \/ Len(preMV) = cfg.MaxCreatedVolumes) =>
        /\ NoRemoteCall
        /\ pc = "done" => err \in {<<"MaxLogicalSizeGb exceeded">>,
                                   <<"MaxCreatedVolumes reached">>}

\* C9: with no other actor attaching volumes, the host has at most
\* MaxAttachedVolumes volumes attached after an attempt.
C9_AttachedWithinMax ==
    pc = "done" => Cardinality(AttachedIds) <= cfg.MaxAttachedVolumes

C11_DegenerateConfigFails ==
    (/\ op = "GrowVolume"
     /\ \/ cfg.MaxCreatedVolumes <= 1
        \/ cfg.MaxLogicalSizeGb <= cfg.InitialSizeGb) =>
        /\ \A r \in calculateSizeIncreasePerVolume(cfg) : r.err /\ r.val = 0
        /\ pc = "done"
        /\ err = <<"calculateSizeIncreasePerVolume">>
        /\ NoRemoteCall

\* C12: with MaxCreatedVolumes > 1 and MaxLogicalSizeGb > InitialSizeGb every
\* GrowVolume, whatever the managed set, gets no calculation error and works
\* with the one number q such that
\*   q * (MaxCreatedVolumes - 1) <= MaxLogicalSizeGb - InitialSizeGb
\*                               <  (q + 1) * (MaxCreatedVolumes - 1).
C12_IncrementIsFloor ==
    (ValidCfg /\ op = "GrowVolume") =>
        LET difference == cfg.MaxLogicalSizeGb - cfg.InitialSizeGb
            slots      == cfg.MaxCreatedVolumes - 1
        IN  /\ err # <<"calculateSizeIncreasePerVolume">>
            /\ sizeGb * slots <= difference
            /\ difference < (sizeGb + 1) * slots

C12_Witness ==
    /\ ValidCfg /\ op = "GrowVolume"
    /\ preMV # <<>>
    /\ (cfg.MaxLogicalSizeGb - cfg.InitialSizeGb) % (cfg.MaxCreatedVolumes - 1) # 0
    /\ CallsNamed("DescribeVolumes") # {}

\* C13: when the context is cancelled while an attempt that created a volume
\* rolls back, each rollback call can still take effect: detach can release
\* an attached volume, the wait can see an available volume, delete can
\* remove a volume that is not attached.
C13_RollbackSurvivesCancel ==
    /\ (cancelled /\ pc = "rb_detach" /\ cloud[volId].st = "in-use") =>
           ENABLED (RemoveVolumeDetach /\ cloud'[volId].st = "available")
    /\ (cancelled /\ pc = "rb_wait" /\ cloud[volId].st = "available") =>
           ENABLED (RemoveVolumeWait /\ errList' = errList)
    /\ (cancelled /\ pc = "rb_delete" /\ cloud[volId].st = "available") =>
           ENABLED (RemoveVolumeDelete /\ cloud'[volId].st = "deleted")

\* C14: the local device-readiness poll timed out: no detach, rollback wait
\* or delete was issued, the volume is attached at the provider on the
\* allocated device, its record is in ManagedVolumes, and no filesystem
\* call was made.
C14_LocalTimeoutLeavesVolume ==
    (pc = "done" /\ err # <<>> /\ Head(err) = "localVolAvailabilityWaiter") =>
        /\ CallsNamed("DetachVolume") = {}
        /\ CallsNamed("RollbackWait") = {}
        /\ CallsNamed("DeleteVolume") = {}
        /\ cloud[volId].st = "in-use"
        /\ cloud[volId].dev = device
        /\ volId \in Ids(CurMV)
        /\ CallsNamed("CreateFileSystem") = {}
        /\ CallsNamed("GrowFileSystem") = {}

C14_Witness ==
    /\ pc = "done" /\ err = <<"localVolAvailabilityWaiter">>
    /\ ~cancelled
    /\ op = "GrowVolume"
    /\ Len(CurMV) = 2

\* the attempt failed at the pre-check, the capacity probe, the device
\* allocation or the create-volume call
EarlyErrors == {"MaxLogicalSizeGb exceeded", "MaxCreatedVolumes reached", "DescribeVolumes",
                "MaxAttachedVolumes exceeded", "getNextLogicalDevice", "CreateVolume"}
EarlyFailure ==
    /\ pc = "done" /\ err # <<>>
    /\ \/ Head(err) \in EarlyErrors
       \/ Head(err) = "isAvailable" /\ device = 0

\* C15: an attempt that failed at the pre-check, the capacity probe, the
\* device allocation or the create-volume call left ManagedVolumes as it
\* was, created no volume at the provider, and issued no availability wait,
\* detach or delete.
C15_EarlyFailureNoEffect ==
    EarlyFailure =>
        /\ CurMV = preMV
        /\ volId = 0
        /\ \A i \in CallsNamed("CreateVolume") : ~calls[i].ok
        /\ \A i \in DOMAIN calls : calls[i].call \in {"DescribeVolumes", "CreateVolume"}

C15_Witness ==
    /\ EarlyFailure
    /\ err = <<"CreateVolume">>
    /\ ~cancelled
    /\ preMV # <<>>

\* the remote calls of createAndAttachEbsVolume outside removeVolume
ProtocolOrder == <<"DescribeVolumes", "CreateVolume", "WaitAvailable", "AttachVolume",
                   "ModifyInstanceAttribute">>
ProtocolCalls ==
    {i \in DOMAIN calls : \E k \in DOMAIN ProtocolOrder : calls[i].call = ProtocolOrder[k]}

\* the attempt got to the local device-readiness poll
ReachedLocalPoll ==
    \/ pc \in {"localwait", "fs"}
    \/ CallsNamed("CreateFileSystem") \cup CallsNamed("GrowFileSystem") # {}
    \/ pc = "done" /\ err = <<"localVolAvailabilityWaiter">>
    \/ pc = "done" /\ err = <<"isAvailable">> /\ device # 0

\* C16: the protocol calls an attempt has issued are the first calls of the
\* attempt, they follow the order describe, create, wait, attach, modify with
\* none repeated, all but the last one succeeded, and the local poll is
\* reached only after all five succeeded.
C16_FixedCallOrder ==
    LET n == Cardinality(ProtocolCalls)
    IN  /\ n <= Len(ProtocolOrder)
        /\ \A i \in 1..n : i \in DOMAIN calls /\ calls[i].call = ProtocolOrder[i]
        /\ \A i \in 1..(n - 1) : calls[i].ok
        /\ ReachedLocalPoll => n = Len(ProtocolOrder) /\ calls[n].ok
        /\ pc = "localwait" => Len(calls) = Len(ProtocolOrder)

C16_Witness ==
    /\ pc = "localwait"
    /\ op = "GrowVolume"
    /\ preMV # <<>>

\* C17: a GrowVolume that got past the increment calculation requests a
\* volume of exactly the calculated size; it calls GrowFileSystem (never
\* CreateFileSystem) at most once, as its last call, after the five protocol
\* calls and the local poll succeeded, on the device the new volume is
\* attached to; it returns nil only after that call succeeded, and when the
\* call failed the new volume is still attached and recorded and no rollback
\* call was issued.
C17_GrowProtocol ==
    op = "GrowVolume" =>
        /\ CallsNamed("CreateVolume") # {} =>
               [val |-> sizeGb, err |-> FALSE] \in calculateSizeIncreasePerVolume(cfg)
        /\ \A i \in CallsNamed("CreateVolume") : calls[i].arg = sizeGb
        /\ CallsNamed("CreateFileSystem") = {}
        /\ Cardinality(CallsNamed("GrowFileSystem")) <= 1
        /\ \A i \in CallsNamed("GrowFileSystem") :
               /\ i = Len(calls) /\ i = Len(ProtocolOrder) + 1
               /\ \A j \in 1..(i - 1) : calls[j].ok
               /\ calls[i].vol = volId /\ calls[i].arg = device
               /\ cloud[volId].st = "in-use" /\ cloud[volId].dev = device
               /\ device \in devNodes
               /\ pc = "done"
               /\ err = (IF calls[i].ok THEN <<>> ELSE <<"GrowFileSystem">>)
        /\ (pc = "done" /\ err = <<>>) => CallsNamed("GrowFileSystem") # {}
        /\ (pc = "done" /\ err = <<"GrowFileSystem">>) =>
               /\ CallsNamed("GrowFileSystem") # {}
               /\ volId \in Ids(CurMV)
               /\ ~RolledBack

C17_Witness ==
    /\ op = "GrowVolume"
    /\ pc = "done" /\ err = <<"GrowFileSystem">>
    /\ sizeGb # cfg.InitialSizeGb
    /\ preMV # <<>>

\* C18: CreateVolume requests a volume of exactly InitialSizeGb; it calls
\* CreateFileSystem (never GrowFileSystem) at most once, as its last call,
\* after the five protocol calls and the local poll succeeded, on the device
\* the new volume is attached to; when it returns nil that call was made and
\* ManagedVolumes is what it was plus the record of the new volume with size
\* InitialSizeGb (the first record when the set was empty); when the
\* protocol failed no filesystem call was made.
C18_CreateProtocol ==
    op = "CreateVolume" =>
        /\ sizeGb = cfg.InitialSizeGb
        /\ \A i \in CallsNamed("CreateVolume") : calls[i].arg = cfg.InitialSizeGb
        /\ CallsNamed("GrowFileSystem") = {}
        /\ Cardinality(CallsNamed("CreateFileSystem")) <= 1
        /\ \A i \in CallsNamed("CreateFileSystem") :
               /\ i = Len(calls) /\ i = Len(ProtocolOrder) + 1
               /\ \A j \in 1..(i - 1) : calls[j].ok
               /\ calls[i].vol = volId /\ calls[i].arg = device
               /\ cloud[volId].st = "in-use" /\ cloud[volId].dev = device
               /\ device \in devNodes
               /\ pc = "done"
               /\ err = (IF calls[i].ok THEN <<>> ELSE <<"CreateFileSystem">>)
        /\ (pc = "done" /\ err = <<>>) =>
               /\ CallsNamed("CreateFileSystem") # {}
               /\ Len(ManagedVolumes) = Len(preMV) + 1
               /\ SubSeq(ManagedVolumes, 1, Len(preMV)) = preMV
               /\ ManagedVolumes[Len(ManagedVolumes)].id = volId
               /\ ManagedVolumes[Len(ManagedVolumes)].size = cfg.InitialSizeGb
               /\ cloud[volId].size = cfg.InitialSizeGb
        /\ (pc = "done" /\ err # <<>> /\ err # <<"CreateFileSystem">>) =>
               CallsNamed("CreateFileSystem") = {}

C18_Witness ==
    /\ op = "CreateVolume"
    /\ pc = "done" /\ err = <<>>
    /\ preMV = <<>>
    /\ ManagedVolumes[1].size = cfg.InitialSizeGb
    /\ cfg.InitialSizeGb # cfg.MaxLogicalSizeGb

\* C19: after NewVolume returned a Volume, ManagedVolumes lists exactly the
\* volumes attached to the host whose ebs-autoscale-id tag equals Id, each
\* once, in the provider's order, with the provider's size and tag; when the
\* describe call failed there is no Volume.
C19_DiscoveryExact ==
    LET want == {i \in DOMAIN cloud : cloud[i].st = "in-use" /\ cloud[i].tag = Id}
    IN  /\ constructed =>
               /\ Ids(ManagedVolumes) = want
               /\ Len(ManagedVolumes) = Cardinality(want)
               /\ \A k, l \in DOMAIN ManagedVolumes :
                      k < l => ManagedVolumes[k].id < ManagedVolumes[l].id
               /\ \A k \in DOMAIN ManagedVolumes :
                      /\ ManagedVolumes[k].size = cloud[ManagedVolumes[k].id].size
                      /\ ManagedVolumes[k].tag = cloud[ManagedVolumes[k].id].tag
        /\ ~constructed => ManagedVolumes = <<>>

C19_Witness ==
    /\ constructed
    /\ Len(ManagedVolumes) = 2
    /\ Ids(ManagedVolumes) = {1, 3}
    /\ cloud[2].st = "in-use" /\ cloud[2].tag = OtherId

\* C20: every record in ManagedVolumes (of the caller's Volume and of the
\* copy a monitor tick works on), discovered or appended, carries the
\* ebs-autoscale-id tag with the value Id.
C20_RecordsCarryId ==
    /\ \A k \in DOMAIN ManagedVolumes : ManagedVolumes[k].tag = Id
    /\ \A k \in DOMAIN copyMV : copyMV[k].tag = Id

C20_Witness ==
    /\ constructed /\ ~startEmpty
    /\ okCreate # {}
    /\ Len(ManagedVolumes) = 2
    /\ \E i \in DOMAIN cloud : cloud[i].st = "in-use" /\ cloud[i].tag = Id
                                /\ i \notin okCreate

\* C21: when a monitor tick (its usage check or its GrowVolume) ended with
\* an error, the next step of Run is its return with exactly that error, and
\* a Run that has returned makes no further tick.
C21_TickErrorEndsRun ==
    [][/\ (inRun /\ pc = "done" /\ err # <<>> /\ pc' # pc) =>
              (pc' = "returned" /\ ~inRun' /\ err' = err)
       /\ pc = "returned" => (~inRun /\ ~inRun' /\ pc' \in {"returned", "idle"})]_vars

C21_Witness ==
    /\ pc = "returned" /\ ~inRun
    /\ err = <<"GrowFileSystem">>

\* C22: a tick's usage check begins only while Run waits in its select with
\* nothing of an earlier attempt left in flight; the caller's ManagedVolumes
\* changes only outside Run, and the tick's copy only within Run, so the two
\* are never mutated by two flows at once.
C22_OneAttemptInFlight ==
    [][/\ AssessAndGrow =>
              /\ pc = "select" /\ op = "none" /\ err = <<>>
              /\ calls = <<>> /\ volId = 0 /\ device = 0 /\ copyMV = <<>>
       /\ ManagedVolumes' # ManagedVolumes => (~inRun /\ pc \in {"idle", "attach"})
       /\ copyMV' # copyMV => (inRun /\ pc \in {"select", "attach", "done"})]_vars

C22_Witness ==
    /\ inRun /\ pc = "precheck"
    /\ okTick # {}
    /\ calls = <<>>

\* C23: on a tick whose usage check succeeded, GrowVolume is invoked exactly
\* when the usage percentage is greater than the threshold; otherwise the
\* tick ends without an attempt and without an error.
C23_GrowIffUsageExceeds ==
    [][\A total \in StatTotals, used \in StatUsed :
           AssessAndGrowWith(TRUE, total, used) =>
               /\ (op' = "GrowVolume") <=> (TotalUsagePercent(total, used) > PercentageFull)
               /\ op' # "GrowVolume" => (pc' = "done" /\ err' = <<>> /\ calls' = <<>>)]_vars

\* the positions at which the flow blocks in a wait
WaitPcs == {"wait", "rb_wait", "localwait", "select"}

\* C24: once the context is cancelled, a flow blocked in the availability
\* wait, the rollback's availability wait, the local device-readiness poll or
\* the monitor's select leaves that wait, with no timeout or tick interval
\* having to pass.
C24_WaitsObserveCancel ==
    \A w \in WaitPcs : (cancelled /\ pc = w) ~> (pc # w)

C24_Witness ==
    /\ cancelled
    /\ pc = "localwait" /\ ~expired
    /\ device \notin devNodes

\* the positions inside a CreateVolume or GrowVolume invocation
AttemptPcs == {"precheck", "probe", "device", "create", "wait", "attach", "modify",
               "localwait", "fs", "rb_detach", "rb_wait", "rb_delete"}

\* C25: when every call returns and time passes, a CreateVolume or
\* GrowVolume invocation that has started eventually returns, also when the
\* device node never appears.
C25_AttemptReturns ==
    (pc \in AttemptPcs) ~> (pc = "done")

C25_Witness ==
    /\ pc = "done" /\ err = <<"localVolAvailabilityWaiter">>
    /\ ~cancelled
    /\ device \notin devNodes

\* C26: buildVolumeTags returns source-instance, source-instance-arn,
\* ebs-autoscale-id and ebs-autoscale-creation-time with the host's instance
\* id, the host's ARN, the id and the rendered time, then exactly the host
\* tags whose key does not begin with the four characters aws: in the host's
\* order; no returned key begins with aws:.
C26_TagsBuilt ==
    (eval.fn = "buildVolumeTags" /\ eval.done) =>
        LET host == eval.arg.host
            res  == eval.res
            kept == {i \in DOMAIN host.Tags :
                        \/ Len(host.Tags[i].Key) < 4
                        \/ SubSeq(host.Tags[i].Key, 1, 4) # "aws:"}
        IN  /\ Len(res) = 4 + Cardinality(kept)
            /\ res[1] = [Key |-> "source-instance", Value |-> host.InstanceId]
            /\ res[2] = [Key |-> "source-instance-arn", Value |-> host.InstanceArn]
            /\ res[3] = [Key |-> "ebs-autoscale-id", Value |-> eval.arg.id]
            /\ res[4] = [Key |-> "ebs-autoscale-creation-time",
                         Value |-> TimeString(eval.arg.now)]
            /\ \A i \in kept :
                   res[4 + Cardinality({j \in kept : j <= i})] = host.Tags[i]
            /\ \A k \in DOMAIN res :
                   Len(res[k].Key) < 4 \/ SubSeq(res[k].Key, 1, 4) # "aws:"

C26_Witness ==
    /\ eval.fn = "buildVolumeTags" /\ eval.done
    /\ Len(eval.arg.host.Tags) = 3
    /\ eval.arg.host.Tags[1].Key = "aws"
    /\ eval.arg.host.Tags[2].Key = "aws:HostLabel"
    /\ eval.arg.host.Tags[3].Key = "HostName"
    /\ Len(eval.res) = 6

RECURSIVE SizeTotal(_, _)
SizeTotal(s, S) == IF S = {} THEN 0
                   ELSE LET i == CHOOSE x \in S : TRUE
                        IN  s[i].size + SizeTotal(s, S \ {i})

C28_SizeIsSum ==
    /\ [](eval.fn = "managedVolumeSizeGb" /\ eval.done =>
             /\ eval.res = SizeTotal(eval.arg, DOMAIN eval.arg)
             /\ eval.arg = <<>> => eval.res = 0)
    /\ [][eval.fn = "managedVolumeSizeGb" =>
             eval'.arg = eval.arg /\ ManagedVolumes' = ManagedVolumes]_vars

C28_Witness ==
    /\ eval.fn = "managedVolumeSizeGb" /\ eval.done
    /\ Len(eval.arg) = 2 /\ eval.arg[1].size = 51 /\ eval.arg[2].size = 10
    /\ eval.res = 61

\* C29: TotalUsagePercent returns the value 0 together with the error when
\* Stat fails; otherwise it returns no error and the value 0 when the total
\* is 0, exactly 50, 100 and 0 for used 100, 200 and 0 of 200, and in every
\* case used/total*100 to within a thousandth of a percent.
IsNumber(f, k) == IF k = 0 THEN f = Zero32 ELSE f.e <= 0 /\ f.m = k * 2^(-f.e)
Thousandths(f) == IF f.m = 0 THEN 0 ELSE f.m \div 2^(-f.e - 10)
C29_UsagePercent ==
    (eval.fn = "TotalUsagePercent" /\ eval.done) =>
        LET st == eval.arg
            r  == eval.res
        IN  IF st.err THEN r = [usagePercent |-> Zero32, err |-> "Stat"]
            ELSE /\ r.err = "nil"
                 /\ st.total = 0 => r.usagePercent = Zero32
                 /\ st.total = 200 /\ st.used = 100 => IsNumber(r.usagePercent, 50)
                 /\ st.total = 200 /\ st.used = 200 => IsNumber(r.usagePercent, 100)
                 /\ st.total = 200 /\ st.used = 0 => IsNumber(r.usagePercent, 0)
                 /\ st.total # 0 =>
                      /\ r.usagePercent.m = 0 \/ r.usagePercent.e <= -10
                      /\ Thousandths(r.usagePercent) - (102400 * st.used) \div st.total
                            \in -1..1

C29_Witness ==
    /\ eval.fn = "TotalUsagePercent" /\ eval.done
    /\ eval.arg = [total |-> 200, used |-> 100, err |-> FALSE]
    /\ eval.res = [usagePercent |-> [m |-> 13107200, e |-> -18], err |-> "nil"]

\* C30: the batch handed to writeLogs never holds more log events than
\* MaxBatchSize.
C30_BatchWithinMax ==
    cw.pc # "off" => cw.handed <= cw.MaxBatchSize

\* C31: once the context is cancelled or Close has closed the input channel,
\* processLogs reaches its end: it does not panic and does not wait forever,
\* whatever the outcome of its last submission (unless the consumer of
\* ErrChannel has ended the process before).
C31_ProcessorTerminates ==
    (cw.ctxDone \/ cw.closed) ~> (cw.pc = "stopped" \/ cw.consumer = "panicked")

\* C32: whenever no operation is in progress on a constructed Volume, the
\* records of its ManagedVolumes are exactly the volumes a discovery would
\* return now: those attached to the host and tagged with this set's id.
C32_RecordsMatchDiscovery ==
    (constructed /\ BetweenOperations) => Ids(CurMV) = Ids(Discover(Len(cloud)))

\* C33: an attempt that created a volume and returned an error left that
\* volume recorded in ManagedVolumes, or deleted at the provider, or the
\* returned error contains the failure of a rollback step.
RollbackErrors == {"DetachVolume", "RollbackWait", "DeleteVolume"}
C33_NoSilentOrphan ==
    (pc = "done" /\ err # <<>> /\ volId # 0) =>
        \/ volId \in Ids(CurMV)
        \/ cloud[volId].st = "deleted"
        \/ \E k \in DOMAIN err : k > 1 /\ err[k] \in RollbackErrors

C33_Witness ==
    /\ pc = "done" /\ err = <<"AttachVolume">> /\ volId # 0
    /\ volId \notin Ids(CurMV)
    /\ cloud[volId].st = "deleted"

\* C34: every create-volume call issued by GrowVolume asks for at least
\* 1 GB (the increment computed without error is at least 1).  Stated for
\* the valid configurations.
C34_IncrementPositive ==
    (ValidCfg /\ op = "GrowVolume") =>
        \A i \in CallsNamed("CreateVolume") : calls[i].arg >= 1

\* C35: whenever attach-volume is issued, no volume attached to the host
\* occupies the device it names.
C35_AttachToFreeDevice ==
    [][AttachVolume => \A i \in AttachedIds : cloud[i].dev # device]_vars

\* C36: when the context is cancelled and Run is at its select, the next
\* step of Run is its return with nil: no tick is handled any more.
C36_CancelBeatsTick ==
    [][(inRun /\ pc = "select" /\ cancelled /\ pc' # pc) =>
           (pc' = "returned" /\ ~inRun' /\ err' = <<>>)]_vars

\* C37: while the context is not cancelled and the consumer of ErrChannel is
\* running, the pipeline is never stuck with processLogs waiting to send an
\* error on the full ErrChannel and the consumer waiting in Write for
\* processLogs to receive its line.
C37_NoPipelineDeadlock ==
    ~(/\ ~cw.ctxDone /\ ~cw.closed
      /\ cw.pc = "send" /\ cw.errChannel = 1
      /\ cw.consumer = "write")

\* C38: PutLogEvents is never issued against a log stream whose creation
\* did not succeed.
C38_PutOnCreatedStream == ~cw.putMissing

====
